---- MODULE Spec2Model ----
(***************************************************************************)
(* State synchronisation and navigation of the fem-ag-countries app.       *)
(*                                                                         *)
(* The repository holds two snapshots of the same application:             *)
(*   "main" - src/src/main.ts: a plain state object; every handler ends    *)
(*            with an explicit update(); the selection is set by click     *)
(*            handlers (showDetail / goBack).                              *)
(*   "hash" - src/unnamed/part_001 (README followed by the later main.ts): *)
(*            the state is wrapped in a Proxy whose set trap derives       *)
(*            filteredCountries and renders; the selection follows         *)
(*            window.location.hash (handleRouting on hashchange).          *)
(* The variable `variant` says which snapshot a behaviour runs.            *)
(*                                                                         *)
(* Strings that the code inspects character by character (country names,   *)
(* the search box value) are sequences of one-character strings.  An       *)
(* optional value (Country | null, string | null) is a sequence of length  *)
(* 0 or 1.                                                                 *)
(***************************************************************************)
EXTENDS Integers, Sequences, FiniteSets, TLC

\* ---------------------------------------------------------------- bounds
\* longest text typed into the search box
MaxLen == 2
\* most hashchange events waiting in the event loop
MaxPending == 2

\* ------------------------------------------------------------ input sets
\* characters the user types: one lower-case and one upper-case letter
Alphabet == {"a", "B"}

\* a few countries: cca3, name.common, region, borders ("Z" names no country)
cA == [cca3 |-> "A", name |-> <<"A", "b">>, region |-> "Europe", borders |-> <<"B", "Z">>]
cB == [cca3 |-> "B", name |-> <<"b", "a">>, region |-> "Asia", borders |-> <<"A">>]
cC == [cca3 |-> "C", name |-> <<"a", "A">>, region |-> "Europe", borders |-> <<>>]
Universe == {cA, cB, cC}

\* tokens the location fragment can carry (after the '#')
Tokens == {"", "A", "B", "C", "Z"}

\* messages of a rejected fetch
Messages == {"Failed to fetch"}

\* values of the region <select>
Regions == {"", "Africa", "Europe"}

\* values of localStorage's darkMode entry ("absent": no entry; "on": an
\* entry that is neither of the strings the application writes)
StoredValues == {"absent", "true", "false", "on"}

RECURSIVE SeqsUpTo(_, _)
SeqsUpTo(S, n) ==
  IF n = 0 THEN {<<>>}
  ELSE LET shorter == SeqsUpTo(S, n - 1)
       IN shorter \cup {Append(s, x) : s \in shorter, x \in S}

Texts == SeqsUpTo(Alphabet, MaxLen)

\* what getCountries can resolve to: collections of distinct countries, in
\* different orders, with and without the countries that border links name
Datasets == {<<>>, <<cA>>, <<cA, cB>>, <<cB, cA>>, <<cC, cA, cB>>}

\* ------------------------------------------------------- pure functions
\* String.prototype.toLowerCase, one character
LowerChar(c) == CASE c = "A" -> "a" [] c = "B" -> "b" [] OTHER -> c

toLowerCase(s) == [i \in 1..Len(s) |-> LowerChar(s[i])]

\* String.prototype.includes
includes(s, t) ==
  \E i \in 0..(Len(s) - Len(t)) : \A k \in 1..Len(t) : s[i + k] = t[k]

\* the filter callback of applyFilters / of the Proxy's set trap
matches(country, searchTerm, regionFilter) ==
  LET matchesSearch == includes(toLowerCase(country.name), searchTerm)
      matchesRegion == IF regionFilter # "" THEN country.region = regionFilter ELSE TRUE
  IN matchesSearch /\ matchesRegion

filter(countries, searchTerm, regionFilter) ==
  SelectSeq(countries, LAMBDA country : matches(country, searchTerm, regionFilter))

\* find as it would be if it searched a list of all known countries
\* instead of the collection it is given
find_static(countries, code) ==
  LET hit == {c \in Universe : c.cca3 = code}
  IN IF hit = {} THEN <<>> ELSE <<CHOOSE c \in hit : TRUE>>

\* Array.prototype.find by cca3: the first match, or none
find(countries, code) ==
  LET idx == {i \in 1..Len(countries) : countries[i].cca3 = code}
  IN IF idx = {} THEN <<>>
     ELSE <<countries[CHOOSE i \in idx : \A j \in idx : i <= j]>>

\* DetailView's getBorderName: the label of a border link
getBorderName(countries, code) ==
  LET borderCountry == find(countries, code)
  IN IF borderCountry # <<>> THEN borderCountry[1].name ELSE <<code>>

\* ------------------------------------------------------------------ state
VARIABLES
  variant,       \* "main" (src/src/main.ts) or "hash" (src/unnamed/part_001)
  state,         \* the AppState object
  hash,          \* window.location.hash without the '#'
  pending,       \* hashchange events queued and not yet dispatched
  fetch,         \* the getCountries promise: "pending", "resolved", "rejected"
  stored,        \* localStorage's darkMode entry
  darkClass,     \* document.documentElement has class 'dark'
  view,          \* what document.body shows: the state of the last render, if any
  trace,         \* what the last event's handler did: writes, derivations, renders, scrolls
  frames,        \* the state each render pass of the last event read, in order
  lastEvent,     \* the last external event: its kind, its argument, the selection before it
                 \* (for the page load: what matchMedia('(prefers-color-scheme: dark)') said)
  inputValue,    \* the text last typed into the search box, as typed
  pendingUnresolved  \* the fetch is pending and handleRouting has met a non-empty token

vars == <<variant, state, hash, pending, fetch, stored, darkClass,
          view, trace, frames, lastEvent, inputValue, pendingUnresolved>>

\* the object literal the state is constructed from
initialState ==
  [countries |-> <<>>, filteredCountries |-> <<>>, loading |-> TRUE, error |-> <<>>,
   darkMode |-> FALSE, selectedCountry |-> <<>>, searchTerm |-> <<>>, regionFilter |-> ""]

\* ------------------------------------------------- what a handler works on
\* A handler maps a world to a world: the state object, the trace of what it
\* did so far, and the browser objects it touches.
World ==
  [st |-> state, tr |-> <<>>, fr |-> <<>>, stored |-> stored, darkClass |-> darkClass,
   hash |-> hash, pending |-> pending]

Entry(op, prop) == [op |-> op, prop |-> prop]

\* render(AppView(), document.body) / render(appTemplate(), document.body):
\* a render pass reads the state as it is at that moment
renderPass(w) ==
  [w EXCEPT !.tr = Append(@, Entry("render", "")), !.fr = Append(@, w.st)]

\* window.scrollTo(0, 0)
scrollTo(w) == [w EXCEPT !.tr = Append(@, Entry("scroll", ""))]

\* a plain property assignment on the state object (Reflect.set on the target)
assign(w, property, value) ==
  [w EXCEPT !.st = [@ EXCEPT ![property] = value],
            !.tr = Append(@, Entry("write", property))]

\* one pass of the filter over the collection, stored into filteredCountries
deriveFiltered(w) ==
  LET w1 == [w EXCEPT !.tr = Append(@, Entry("derive", ""))]
  IN assign(w1, "filteredCountries",
            filter(w.st.countries, w.st.searchTerm, w.st.regionFilter))

\* ------------------------------------------- part_001: the reactive Proxy
\* the set trap as it would be with the render placed before the derived-state logic
set_renderFirst(w, property, value) ==
  LET w1 == renderPass(assign(w, property, value))
  IN IF property \in {"countries", "searchTerm", "regionFilter"}
     THEN deriveFiltered(w1)
     ELSE w1

\* the set trap as it would be if the derived value were written through the
\* proxy (state.filteredCountries = ...) instead of the target
set_reentrant(w, property, value) ==
  LET w1 == assign(w, property, value)
      w2 == IF property \in {"countries", "searchTerm", "regionFilter"}
            THEN renderPass(deriveFiltered(w1))
            ELSE w1
  IN renderPass(w2)

\* the set trap of createState: Reflect.set, derived state, render
set(w, property, value) ==
  LET w1 == assign(w, property, value)
      w2 == IF property \in {"countries", "searchTerm", "regionFilter"}
            THEN deriveFiltered(w1)
            ELSE w1
  IN renderPass(w2)

toggleDarkMode(w) ==
  LET w1 == set(w, "darkMode", ~w.st.darkMode)
  IN IF w1.st.darkMode
     THEN [w1 EXCEPT !.darkClass = TRUE, !.stored = "true"]
     ELSE [w1 EXCEPT !.darkClass = FALSE, !.stored = "false"]

\* handleSearch as it would be without the toLowerCase() call
handleSearch_verbatim(w, value) == set(w, "searchTerm", value)

handleSearch(w, value) == set(w, "searchTerm", toLowerCase(value))

handleRegionFilter(w, value) == set(w, "regionFilter", value)

\* handleRouting as it would be if an unknown token left the selection alone
handleRouting_keep(w) ==
  IF w.hash # ""
  THEN LET country == find(w.st.countries, w.hash)
       IN IF country # <<>>
          THEN scrollTo(set(w, "selectedCountry", country))
          ELSE w
  ELSE set(w, "selectedCountry", <<>>)

\* handleRouting as it would be if it scrolled on every run
handleRouting_scrollAlways(w) ==
  IF w.hash # ""
  THEN LET country == find(w.st.countries, w.hash)
       IN IF country # <<>>
          THEN scrollTo(set(w, "selectedCountry", country))
          ELSE scrollTo(set(w, "selectedCountry", <<>>))
  ELSE scrollTo(set(w, "selectedCountry", <<>>))

handleRouting(w) ==
  IF w.hash # ""
  THEN LET country == find(w.st.countries, w.hash)
       IN IF country # <<>>
          THEN scrollTo(set(w, "selectedCountry", country))
          ELSE set(w, "selectedCountry", <<>>)
  ELSE set(w, "selectedCountry", <<>>)

\* an assignment to window.location.hash, or following an <a href="#token">:
\* the browser queues a hashchange event only when the fragment changes
setLocationHash(w, token) ==
  IF token = w.hash THEN w
  ELSE [w EXCEPT !.hash = token, !.pending = @ + 1]

\* goBack as it would be if it forgot to clear the token
goBack_keepToken(w) == w

goBack(w) == setLocationHash(w, "")

\* the try block as it would be without the handleRouting() call
fetchCountriesDataThen_noRouting(w, data) ==
  LET w1 == set(w, "countries", data)
  IN set(w1, "loading", FALSE)

\* fetchCountriesData after the await: the try block with the resolved data
fetchCountriesDataThen(w, data) ==
  LET w1 == set(w, "countries", data)
      w2 == set(w1, "loading", FALSE)
  IN handleRouting(w2)

\* the catch block as it would be without the write of loading
fetchCountriesDataCatch_stillLoading(w, message) ==
  set(w, "error", <<message>>)

\* fetchCountriesData after the await: the catch block
fetchCountriesDataCatch(w, message) ==
  LET w1 == set(w, "error", <<message>>)
  IN set(w1, "loading", FALSE)

\* -------------------------------------------- main.ts: explicit update()
update(w) == renderPass(w)

toggleDarkModeMain(w) ==
  LET w1 == assign(w, "darkMode", ~w.st.darkMode)
      w2 == IF w1.st.darkMode
            THEN [w1 EXCEPT !.darkClass = TRUE, !.stored = "true"]
            ELSE [w1 EXCEPT !.darkClass = FALSE, !.stored = "false"]
  IN update(w2)

\* applyFilters as it would be if it filtered the collection in place
applyFilters_inPlace(w) ==
  LET kept == filter(w.st.countries, w.st.searchTerm, w.st.regionFilter)
  IN update(assign(assign(w, "countries", kept), "filteredCountries", kept))

applyFilters(w) == update(deriveFiltered(w))

handleSearchMain(w, value) == applyFilters(assign(w, "searchTerm", toLowerCase(value)))

handleRegionFilterMain(w, value) == applyFilters(assign(w, "regionFilter", value))

\* showDetail as it would be if selecting the shown country again closed it
showDetail_toggle(w, country) ==
  IF w.st.selectedCountry = <<country>>
  THEN update(assign(w, "selectedCountry", <<>>))
  ELSE update(scrollTo(assign(w, "selectedCountry", <<country>>)))

showDetail(w, country) ==
  update(scrollTo(assign(w, "selectedCountry", <<country>>)))

\* goBack as it would be if it also reset the search
goBackMain_resetSearch(w) ==
  applyFilters(assign(assign(w, "selectedCountry", <<>>), "searchTerm", <<>>))

goBackMain(w) == update(assign(w, "selectedCountry", <<>>))

\* the click handler as it would be if it searched the filtered list
borderClick_filtered(w, border) ==
  LET borderCountry == find(w.st.filteredCountries, border)
  IN IF borderCountry # <<>> THEN showDetail(w, borderCountry[1]) ELSE w

\* the click handler of a border button in DetailView
borderClick(w, border) ==
  LET borderCountry == find(w.st.countries, border)
  IN IF borderCountry # <<>> THEN showDetail(w, borderCountry[1]) ELSE w

fetchCountriesDataMainThen(w, data) ==
  LET w1 == assign(w, "countries", data)
      w2 == assign(w1, "filteredCountries", data)
      w3 == assign(w2, "loading", FALSE)
  IN update(w3)

fetchCountriesDataMainCatch(w, message) ==
  LET w1 == assign(w, "error", <<message>>)
      w2 == assign(w1, "loading", FALSE)
  IN update(w2)

\* ---------------------------------------------------------- module load
\* the test as it would be if the system preference were asked first
initialDarkMode_systemFirst(storedValue, systemDark) ==
  systemDark \/ storedValue = "true"

\* "Initialize Dark Mode": the three-way test on localStorage and matchMedia
initialDarkMode(storedValue, systemDark) ==
  storedValue = "true" \/ (storedValue = "absent" /\ systemDark)

\* the world after the module body has run, up to the call of fetchCountriesData
loaded(v, storedValue, systemDark, token) ==
  LET w0 == [st |-> initialState, tr |-> <<>>, fr |-> <<>>, stored |-> storedValue,
             darkClass |-> FALSE, hash |-> token, pending |-> 0]
      dark == initialDarkMode(storedValue, systemDark)
      w1 == IF v = "hash" THEN set(w0, "darkMode", dark) ELSE assign(w0, "darkMode", dark)
  IN [w1 EXCEPT !.darkClass = dark]

\* what the page shows after a handler: the state its last render pass read,
\* or what it showed before when the handler did not render
lastRender(fr, old) == IF fr = <<>> THEN old ELSE <<fr[Len(fr)]>>

Event(kind, arg) ==
  [kind |-> kind, arg |-> arg,
   from |-> IF state.selectedCountry = <<>> THEN "" ELSE state.selectedCountry[1].cca3]

\* the world a handler leaves becomes the next state
Commit(w, ev) ==
  /\ state' = w.st
  /\ trace' = w.tr
  /\ frames' = w.fr
  /\ stored' = w.stored
  /\ darkClass' = w.darkClass
  /\ hash' = w.hash
  /\ pending' = w.pending
  /\ view' = lastRender(w.fr, view)
  /\ lastEvent' = ev
  /\ UNCHANGED variant

Init ==
  \E v \in {"main", "hash"}, storedValue \in StoredValues, systemDark \in BOOLEAN,
     token \in Tokens :
    LET w == loaded(v, storedValue, systemDark, IF v = "hash" THEN token ELSE "")
    IN /\ variant = v
       /\ state = w.st
       /\ trace = w.tr
       /\ frames = w.fr
       /\ stored = w.stored
       /\ darkClass = w.darkClass
       /\ hash = w.hash
       /\ pending = w.pending
       /\ view = lastRender(w.fr, <<>>)
       /\ fetch = "pending"
       /\ lastEvent = [kind |-> "load",
                        arg |-> IF systemDark THEN "prefers-dark" ELSE "prefers-light",
                        from |-> ""]
       /\ inputValue = <<>>
       /\ pendingUnresolved = FALSE

\* ------------------------------------------------ what the page offers
HomeShown == view # <<>> /\ view[1].selectedCountry = <<>>
DetailShown == view # <<>> /\ view[1].selectedCountry # <<>>
Range(s) == {s[i] : i \in 1..Len(s)}

\* ----------------------------------------------------------- the events
\* click on the dark-mode button of HeaderView
ClickDarkMode ==
  /\ view # <<>>
  /\ Commit(IF variant = "hash" THEN toggleDarkMode(World) ELSE toggleDarkModeMain(World),
            Event("darkMode", ""))
  /\ UNCHANGED <<fetch, inputValue, pendingUnresolved>>

\* input event of the search box of HomeView
SearchInput(value) ==
  /\ HomeShown
  /\ Commit(IF variant = "hash" THEN handleSearch(World, value)
            ELSE handleSearchMain(World, value),
            Event("search", ""))
  /\ inputValue' = value
  /\ UNCHANGED <<fetch, pendingUnresolved>>

\* change event of the region select of HomeView
RegionChange(value) ==
  /\ HomeShown
  /\ Commit(IF variant = "hash" THEN handleRegionFilter(World, value)
            ELSE handleRegionFilterMain(World, value),
            Event("region", value))
  /\ UNCHANGED <<fetch, inputValue, pendingUnresolved>>

\* click on a country card of HomeView
ClickCard(country) ==
  /\ HomeShown
  /\ country \in Range(view[1].filteredCountries)
  /\ pending < MaxPending
  /\ Commit(IF variant = "hash" THEN setLocationHash(World, country.cca3)
            ELSE showDetail(World, country),
            Event("card", country.cca3))
  /\ UNCHANGED <<fetch, inputValue, pendingUnresolved>>

\* click on a border link of DetailView
ClickBorder(border) ==
  /\ DetailShown
  /\ border \in Range(view[1].selectedCountry[1].borders)
  /\ pending < MaxPending
  /\ Commit(IF variant = "hash" THEN setLocationHash(World, border)
            ELSE borderClick(World, border),
            Event("border", border))
  /\ UNCHANGED <<fetch, inputValue, pendingUnresolved>>

\* click on the Back button of DetailView
ClickBack ==
  /\ DetailShown
  /\ pending < MaxPending
  /\ Commit(IF variant = "hash" THEN goBack(World) ELSE goBackMain(World),
            Event("back", ""))
  /\ UNCHANGED <<fetch, inputValue, pendingUnresolved>>

\* part_001 only: the user edits the fragment or uses back/forward
UserNavigate(token) ==
  /\ variant = "hash"
  /\ pending < MaxPending
  /\ Commit(setLocationHash(World, token), Event("navigate", token))
  /\ UNCHANGED <<fetch, inputValue, pendingUnresolved>>

\* part_001 only: the event loop dispatches a queued hashchange to handleRouting
HashChange ==
  /\ variant = "hash"
  /\ pending > 0
  /\ Commit(handleRouting([World EXCEPT !.pending = @ - 1]), Event("hashchange", hash))
  /\ pendingUnresolved' = (fetch = "pending" /\ hash # "")
  /\ UNCHANGED <<fetch, inputValue>>

\* the getCountries promise resolves
FetchResolved(data) ==
  /\ fetch = "pending"
  /\ fetch' = "resolved"
  /\ Commit(IF variant = "hash" THEN fetchCountriesDataThen(World, data)
            ELSE fetchCountriesDataMainThen(World, data),
            Event("resolved", IF pendingUnresolved THEN "pendingUnresolved" ELSE ""))
  /\ pendingUnresolved' = FALSE
  /\ UNCHANGED inputValue

\* the getCountries promise rejects
FetchRejected(message) ==
  /\ fetch = "pending"
  /\ fetch' = "rejected"
  /\ Commit(IF variant = "hash" THEN fetchCountriesDataCatch(World, message)
            ELSE fetchCountriesDataMainCatch(World, message),
            Event("rejected", ""))
  /\ pendingUnresolved' = FALSE
  /\ UNCHANGED inputValue

Next ==
  \/ ClickDarkMode
  \/ \E value \in Texts : SearchInput(value)
  \/ \E value \in Regions : RegionChange(value)
  \/ \E country \in Universe : ClickCard(country)
  \/ \E border \in Tokens : ClickBorder(border)
  \/ ClickBack
  \/ \E token \in Tokens : UserNavigate(token)
  \/ HashChange
  \/ \E data \in Datasets : FetchResolved(data)
  \/ \E message \in Messages : FetchRejected(message)

Spec == Init /\ [][Next]_vars

\* =========================================================== properties
Ids(countries) == {countries[i].cca3 : i \in 1..Len(countries)}
Selected == state.selectedCountry
RawFields == {"countries", "searchTerm", "regionFilter"}

\* ---- C1 ----------------------------------------------------------------
\* the filtered list of a state is the subsequence of its collection that
\* matches its searchTerm and regionFilter
Consistent(st) ==
  st.filteredCountries =
    SelectSeq(st.countries,
              LAMBDA c : /\ includes(toLowerCase(c.name), st.searchTerm)
                         /\ (st.regionFilter = "" \/ c.region = st.regionFilter))

\* C1: every render pass of every event, and what the page shows, pairs the
\* filtered list with the collection, search term and region filter it was
\* derived from: the snapshot a render reads is consistent.
C1_RenderConsistent ==
  /\ \A i \in 1..Len(frames) : Consistent(frames[i])
  /\ view # <<>> => Consistent(view[1])

\* a search typed before the fetch completed, and the fetch's renders filter by it
C1_Witness ==
  /\ lastEvent.kind = "resolved"
  /\ state.searchTerm # <<>>
  /\ frames # <<>>
  /\ state.filteredCountries # <<>>
  /\ Len(state.filteredCountries) < Len(state.countries)

\* ---- C2 ----------------------------------------------------------------
\* two characters are the same letter, whatever their case
SameLetter(x, y) == LowerChar(x) = LowerChar(y)

\* the name contains the typed text, ignoring case
ContainsIgnoringCase(name, typed) ==
  \E off \in 0..(Len(name) - Len(typed)) :
    \A k \in 1..Len(typed) : SameLetter(name[off + k], typed[k])

\* positions of the collection that the typed text and the region select
VisiblePositions ==
  {i \in 1..Len(state.countries) :
     /\ ContainsIgnoringCase(state.countries[i].name, inputValue)
     /\ (state.regionFilter = "" \/ state.countries[i].region = state.regionFilter)}

\* the k-th smallest element of a set of positions
Kth(P, k) == CHOOSE i \in P : Cardinality({j \in P : j < i}) = k - 1

\* C2: the derived list is exactly the countries at the visible positions, in
\* the collection's order, each once and unmodified: those whose name contains
\* the text as typed (in any case) ignoring case and whose region is the
\* region filter, or all regions when the filter is empty.
C2_DerivationCorrect ==
  /\ Len(state.filteredCountries) = Cardinality(VisiblePositions)
  /\ \A k \in 1..Len(state.filteredCountries) :
       state.filteredCountries[k] = state.countries[Kth(VisiblePositions, k)]

\* upper-case text was typed and selects two of three countries
C2_Witness ==
  /\ lastEvent.kind = "search"
  /\ inputValue # toLowerCase(inputValue)
  /\ Len(state.filteredCountries) = 2
  /\ Len(state.countries) = 3

\* ---- C3 ----------------------------------------------------------------
\* C3: in the hash-routed variant, a hashchange handled while the fetch is
\* pending leaves the token as it is and the selection none; the step in which
\* the fetch resolves selects the country whose cca3 is the token when the
\* collection has one, and none otherwise, with no further navigation event.
C3_DeepLinkRetry ==
  [][variant = "hash" =>
       /\ (lastEvent'.kind = "hashchange" /\ fetch = "pending") =>
            /\ hash' = hash
            /\ state'.selectedCountry = <<>>
            /\ pendingUnresolved' = (hash # "")
       /\ (lastEvent'.kind = "resolved" /\ hash # "") =>
            /\ hash' = hash
            /\ pending' = pending
            /\ IF hash \in Ids(state'.countries)
               THEN /\ state'.selectedCountry # <<>>
                    /\ state'.selectedCountry[1].cca3 = hash
                    /\ state'.selectedCountry[1] \in Range(state'.countries)
               ELSE state'.selectedCountry = <<>>]_vars

\* the token was met before the data arrived and is selected when it arrives
C3_Witness ==
  /\ variant = "hash"
  /\ lastEvent.kind = "resolved"
  /\ lastEvent.arg = "pendingUnresolved"
  /\ Selected # <<>>
  /\ Selected[1].cca3 = hash

\* ---- C4 ----------------------------------------------------------------
\* C4: a hashchange handled with a non-empty token that is the cca3 of no
\* country of the collection leaves the selection none, whatever it was, and
\* leaves the error as it was.
C4_BadTokenFallback ==
  [][(variant = "hash" /\ lastEvent'.kind = "hashchange"
        /\ hash # "" /\ hash \notin Ids(state.countries)) =>
       /\ state'.selectedCountry = <<>>
       /\ state'.error = state.error]_vars

\* a country was selected and an unknown token cleared the selection
C4_Witness ==
  /\ variant = "hash"
  /\ lastEvent.kind = "hashchange"
  /\ lastEvent.from # ""
  /\ hash = "Z"
  /\ state.countries # <<>>
  /\ Selected = <<>>

\* ---- C5 ----------------------------------------------------------------
\* the events a handler of the application answers with state writes
HandledEvent ==
  \/ lastEvent.kind \in {"search", "region", "darkMode", "hashchange", "resolved", "rejected"}
  \/ variant = "main" /\ lastEvent.kind \in {"card", "back"}
  \/ variant = "main" /\ lastEvent.kind = "border" /\ lastEvent.arg \in Ids(state.countries)

\* C5: every handled event makes exactly one render pass, and that pass reads
\* the state with all of the handler's writes applied.
C5_OneRenderPerEvent ==
  HandledEvent =>
    /\ Len(frames) = 1
    /\ \A i \in 1..Len(frames) : frames[i] = state

\* ---- C6 ----------------------------------------------------------------
\* what follows the write at position i up to the handler's next write of a
\* field other than the derived one
Segment(i) ==
  LET later == {j \in (i + 1)..Len(trace) :
                  trace[j].op = "write" /\ trace[j].prop # "filteredCountries"}
      stop == IF later = {} THEN Len(trace) + 1
              ELSE CHOOSE j \in later : \A k \in later : j <= k
  IN (i + 1)..(stop - 1)

Count(S, op) == Cardinality({j \in S : trace[j].op = op})

\* the raw-field writes of the last event made through the Proxy, or by
\* handleSearch / handleRegionFilter of main.ts
RawWrites ==
  {i \in 1..Len(trace) :
     /\ trace[i].op = "write"
     /\ trace[i].prop \in RawFields
     /\ (variant = "hash" \/ lastEvent.kind \in {"search", "region"})}

C7_SelectionInCollection ==
  Selected = <<>> \/ Selected[1] \in Range(state.countries)

\* a navigation moved the selection from one country to another
C7_Witness ==
  /\ Selected # <<>>
  /\ lastEvent.from # ""
  /\ lastEvent.from # Selected[1].cca3

\* ---- C8 ----------------------------------------------------------------
\* navigating to an id, with the navigation event it causes handled at once:
\* main.ts selects the country if the collection has it; part_001 writes the
\* token and, when that queued a hashchange, runs its handler
navigateTo(w, id) ==
  IF variant = "hash"
  THEN LET w1 == setLocationHash(w, id)
       IN IF w1.pending > w.pending
          THEN handleRouting([w1 EXCEPT !.pending = @ - 1])
          ELSE w1
  ELSE borderClick(w, id)

\* what a navigation can leave behind: the state object (selection, raw and
\* derived state), the token, the queue of hashchange events, the preference
Core(w) == <<w.st, w.hash, w.pending, w.stored, w.darkClass>>

\* C8: from every reachable state and for every id, navigating to the id twice
\* in a row leaves the same state, token and queue as navigating to it once.
C8_NavigationIdempotent ==
  \A id \in Tokens \ {""} :
    Core(navigateTo(navigateTo(World, id), id)) = Core(navigateTo(World, id))

\* the user navigated to the token that was already current and selected
C8_Witness ==
  /\ variant = "hash"
  /\ lastEvent.kind = "navigate"
  /\ lastEvent.arg = hash
  /\ lastEvent.from = hash
  /\ pending = 0
  /\ Selected # <<>>
  /\ Selected[1].cca3 = hash
  /\ trace = <<>>

\* ---- C9 ----------------------------------------------------------------
\* C9: after a border link whose id no country of the collection has is
\* selected (main.ts: the click; part_001: the hashchange it causes), the
\* selection is none; the selection never has that id; the link's label is
\* the raw id.
C9_MissingBorderUnselects ==
  /\ (variant = "main" /\ lastEvent.kind = "border"
        /\ lastEvent.arg \notin Ids(state.countries)) => Selected = <<>>
  /\ (variant = "hash" /\ lastEvent.kind = "hashchange"
        /\ hash # "" /\ hash \notin Ids(state.countries)) => Selected = <<>>
  /\ Selected # <<>> => Selected[1].cca3 \in Ids(state.countries)
  /\ Selected # <<>> =>
       \A b \in Range(Selected[1].borders) :
         b \notin Ids(state.countries) => getBorderName(state.countries, b) = <<b>>

\* ---- C10 ---------------------------------------------------------------
\* C10: selecting, from a shown country, a border link whose id a country of
\* the collection has selects exactly that country: main.ts in the click
\* itself; part_001 writes the id to the token with a hashchange queued, and
\* a hashchange handled with that token selects the country.
C10_BorderLinkSelects ==
  /\ (variant = "main" /\ lastEvent.kind = "border"
        /\ lastEvent.arg \in Ids(state.countries)) =>
       /\ Selected # <<>>
       /\ Selected[1].cca3 = lastEvent.arg
       /\ Selected[1] \in Range(state.countries)
  /\ (variant = "hash" /\ lastEvent.kind = "border") =>
       /\ hash = lastEvent.arg
       /\ pending > 0
  /\ (variant = "hash" /\ lastEvent.kind = "hashchange"
        /\ hash \in Ids(state.countries)) =>
       /\ Selected # <<>>
       /\ Selected[1].cca3 = hash
       /\ Selected[1] \in Range(state.countries)

\* from country A the border link B was clicked and B is selected
C10_Witness ==
  /\ variant = "main"
  /\ lastEvent.kind = "border"
  /\ lastEvent.from = "A"
  /\ lastEvent.arg = "B"
  /\ Selected = <<cB>>

\* ---- C11 ---------------------------------------------------------------
\* C11: once the fetch has failed, the error holds a message, loading is
\* false, the collection and the filtered list are empty and the selection is
\* none, and this stays so after every later search, region, navigation and
\* dark-mode event.
C11_FailedFetchStaysEmpty ==
  fetch = "rejected" =>
    /\ state.error # <<>>
    /\ state.error[1] \in Messages
    /\ state.loading = FALSE
    /\ state.countries = <<>>
    /\ state.filteredCountries = <<>>
    /\ Selected = <<>>
    /\ view # <<>> /\ view[1] = state

\* after a failed fetch a search was typed with a region chosen and dark mode
\* toggled, and the list is still empty
C11_Witness ==
  /\ fetch = "rejected"
  /\ lastEvent.kind \in {"search", "hashchange"}
  /\ state.searchTerm # <<>>
  /\ state.regionFilter # ""
  /\ stored # "absent"
  /\ state.error # <<>>

\* ---- C12 ---------------------------------------------------------------
\* C12: going back from a shown country clears the selection: main.ts in the
\* click itself; part_001 clears the token with a hashchange waiting, and a
\* hashchange handled with the empty token leaves the selection none.  The
\* selection becomes a country again only by a new selection: in main.ts a
\* click on a card or a border link, in part_001 a handler run with a
\* non-empty token.
C12_BackUnselects ==
  [][/\ (variant = "main" /\ lastEvent'.kind = "back") => state'.selectedCountry = <<>>
     /\ (variant = "hash" /\ lastEvent'.kind = "back") =>
          /\ state.selectedCountry # <<>>
          /\ hash' = ""
          /\ pending' > 0
     /\ (variant = "hash" /\ lastEvent'.kind = "hashchange" /\ hash = "") =>
          state'.selectedCountry = <<>>
     /\ (state.selectedCountry = <<>> /\ state'.selectedCountry # <<>>) =>
          IF variant = "main"
          THEN lastEvent'.kind \in {"card", "border"}
          ELSE /\ lastEvent'.kind \in {"hashchange", "resolved"}
               /\ hash' # ""
               /\ state'.selectedCountry[1].cca3 = hash']_vars

\* Back was clicked on a shown country and its hashchange cleared the selection
C12_Witness ==
  /\ variant = "hash"
  /\ lastEvent.kind = "hashchange"
  /\ lastEvent.from # ""
  /\ hash = ""
  /\ pending = 0
  /\ fetch = "resolved"
  /\ Selected = <<>>

\* ---- C13 ---------------------------------------------------------------
\* writes of the collection in the last event's handler
CollectionWrites ==
  Cardinality({i \in 1..Len(trace) : trace[i].op = "write" /\ trace[i].prop = "countries"})

\* C13: the collection is written only by the step in which the fetch
\* resolves, once, from empty to one of the collections the data source
\* delivers, in the order delivered; every other step leaves it as it is.
\* After the fetch has settled either it resolved and the error is none, or it
\* was rejected, the collection is empty and the error is set.
C13_CollectionWrittenOnce ==
  [][/\ IF lastEvent'.kind = "resolved"
        THEN /\ fetch = "pending" /\ fetch' = "resolved"
             /\ state.countries = <<>>
             /\ state'.countries \in Datasets
             /\ CollectionWrites' = 1
        ELSE /\ state'.countries = state.countries
             /\ CollectionWrites' = 0
     /\ fetch' = "resolved" => state'.error = <<>>
     /\ fetch' = "rejected" => (state'.countries = <<>> /\ state'.error # <<>>)
     /\ fetch' = "pending" => (state'.countries = <<>> /\ state'.error = <<>>)]_vars

\* the collection arrived in an order that is not sorted by cca3 and a search
\* that hides part of it was typed afterwards
C13_Witness ==
  /\ state.countries = <<cC, cA, cB>>
  /\ lastEvent.kind = "search"
  /\ Len(state.filteredCountries) < 3
  /\ state.error = <<>>

\* ---- C14 ---------------------------------------------------------------
\* C14: at start-up a stored "true" gives dark mode, a stored "false" gives
\* light mode whatever the system prefers, and with nothing stored the flag is
\* the system preference (false when the system does not prefer dark); any
\* other stored value gives light mode; after every toggle the stored value
\* is the flag.  The class on the root element follows the flag.
C14_DarkModeFallback ==
  /\ lastEvent.kind = "load" =>
       /\ stored = "true" => state.darkMode = TRUE
       /\ stored = "false" => state.darkMode = FALSE
       /\ stored = "absent" => state.darkMode = (lastEvent.arg = "prefers-dark")
       /\ stored \notin {"true", "false", "absent"} => state.darkMode = FALSE
  /\ lastEvent.kind = "darkMode" =>
       stored = (IF state.darkMode THEN "true" ELSE "false")
  /\ stored \in {"true", "false"} => stored = (IF state.darkMode THEN "true" ELSE "false")
  /\ darkClass = state.darkMode

\* light mode was stored, the system prefers dark, and the page starts light
C14_Witness ==
  /\ lastEvent.kind = "load"
  /\ stored = "false"
  /\ lastEvent.arg = "prefers-dark"
  /\ state.darkMode = FALSE

\* ---- C15 ---------------------------------------------------------------
\* fields of the state object other than the given ones are as they were
SameExcept(fields) ==
  \A f \in DOMAIN state : f \notin fields => state'[f] = state[f]

\* C15: a search or region input writes only searchTerm / regionFilter and
\* the derived list; a navigation event (a click on a card, a border link or
\* Back, a token change, a hashchange) writes only the selection and the
\* token; a dark-mode toggle writes only the flag, its stored value and the
\* root element's class.
C15_HandlersOwnState ==
  [][/\ lastEvent'.kind = "search" =>
          /\ SameExcept({"searchTerm", "filteredCountries"})
          /\ UNCHANGED <<hash, pending, stored, darkClass>>
     /\ lastEvent'.kind = "region" =>
          /\ SameExcept({"regionFilter", "filteredCountries"})
          /\ UNCHANGED <<hash, pending, stored, darkClass>>
     /\ lastEvent'.kind \in {"card", "border", "back", "navigate", "hashchange"} =>
          /\ SameExcept({"selectedCountry"})
          /\ UNCHANGED <<stored, darkClass, inputValue>>
     /\ lastEvent'.kind = "darkMode" =>
          /\ SameExcept({"darkMode"})
          /\ state'.darkMode = ~state.darkMode
          /\ UNCHANGED <<hash, pending, inputValue>>]_vars

\* a detail view was opened from a filtered list and closed again, and the
\* list is still the filtered one
C15_Witness ==
  /\ variant = "main"
  /\ lastEvent.kind = "back"
  /\ state.searchTerm # <<>>
  /\ state.filteredCountries # <<>>
  /\ Len(state.filteredCountries) < Len(state.countries)

\* ---- C16 ---------------------------------------------------------------
\* scroll requests of the last event's handler
Scrolls == Cardinality({i \in 1..Len(trace) : trace[i].op = "scroll"})

\* the last event ran the code that resolves a selection: handleRouting on a
\* hashchange (part_001), showDetail / goBack or the border click handler
\* (main.ts)
NavigationHandled ==
  \/ variant = "hash" /\ lastEvent.kind = "hashchange"
  \/ variant = "main" /\ lastEvent.kind \in {"card", "border", "back"}

\* the token the last navigation event carried
NavigatedToken ==
  IF variant = "hash" THEN hash
  ELSE IF lastEvent.kind = "back" THEN "" ELSE lastEvent.arg

HomeView_loadingWhenEmpty(st) ==
  [loadingShown |-> st.loading \/ Len(st.filteredCountries) = 0,
   errorShown |-> IF st.error # <<>> /\ st.error[1] # "" THEN st.error ELSE <<>>,
   cards |-> [i \in 1..Len(st.filteredCountries) |-> st.filteredCountries[i].cca3],
   emptyShown |-> FALSE]

\* what HomeView of part_001 puts below the controls: the loading indicator,
\* the error paragraph, the cards, the "No countries found" paragraph
HomeView(st) ==
  [loadingShown |-> st.loading,
   errorShown |-> IF st.error # <<>> /\ st.error[1] # "" THEN st.error ELSE <<>>,
   cards |-> [i \in 1..Len(st.filteredCountries) |-> st.filteredCountries[i].cca3],
   emptyShown |-> ~st.loading /\ Len(st.filteredCountries) = 0]

\* HomeView of main.ts: it has no paragraph for an empty list
HomeViewMain(st) ==
  [loadingShown |-> st.loading,
   errorShown |-> IF st.error # <<>> /\ st.error[1] # "" THEN st.error ELSE <<>>,
   cards |-> [i \in 1..Len(st.filteredCountries) |-> st.filteredCountries[i].cca3],
   emptyShown |-> FALSE]

Rendered(st) == IF variant = "hash" THEN HomeView(st) ELSE HomeViewMain(st)

\* the list views among the last event's render passes and on the page
ListFrames ==
  {f \in Range(frames) \cup Range(view) : f.selectedCountry = <<>>}

\* C17: every rendered list view shows the loading indicator exactly when
\* loading is true, and a list view rendered after loading with an empty
\* filtered list differs from what the same state, and the initial state,
\* render while loading.
C17_EmptyDiffersFromLoading ==
  \A f \in ListFrames :
    /\ Rendered(f).loadingShown = f.loading
    /\ (~f.loading /\ f.filteredCountries = <<>>) =>
         /\ Rendered(f) # Rendered([f EXCEPT !.loading = TRUE])
         /\ Rendered(f) # Rendered(initialState)

\* the data is loaded and a region without countries is chosen
C17_Witness ==
  /\ lastEvent.kind = "region"
  /\ view # <<>>
  /\ view[1].selectedCountry = <<>>
  /\ view[1].loading = FALSE
  /\ view[1].countries # <<>>
  /\ view[1].filteredCountries = <<>>

\* ---- C18 ---------------------------------------------------------------
\* C18: in the hash-routed variant, when the fetch has resolved and no
\* hashchange is waiting, the selection is the country of the collection whose
\* cca3 is the token, and none when the token is empty or names no country.
C18_SelectionFollowsToken ==
  (variant = "hash" /\ fetch = "resolved" /\ pending = 0) =>
    IF hash # "" /\ hash \in Ids(state.countries)
    THEN /\ Selected # <<>>
         /\ Selected[1].cca3 = hash
         /\ Selected[1] \in Range(state.countries)
    ELSE Selected = <<>>

\* the last queued hashchange is handled and the selection, which an earlier
\* handler run had already set from the same token, is the token's country
C18_Witness ==
  /\ variant = "hash"
  /\ fetch = "resolved"
  /\ pending = 0
  /\ lastEvent.kind = "hashchange"
  /\ lastEvent.from = hash
  /\ Selected # <<>>
  /\ trace # <<>>

====
